---- MODULE Spec2Model ----
(***************************************************************************)
(* A model of UCSB_Baseball_Stats.py: the UCSBBaseballScraper pipeline     *)
(* (get_player_data -> get_player_hometown -> calculate_war ->             *)
(* process_all_years -> analyze_war_by_position) and its pure helpers.     *)
(*                                                                         *)
(* Conventions                                                             *)
(*  - A Python str is a sequence of one-character strings, so that strip,  *)
(*    upper, split, `in`, int() and float() are computed, not assumed.     *)
(*  - A Python dict is a function whose DOMAIN is the set of keys present. *)
(*  - Every dict value has the one shape [t, n, d, s]: t is the Python     *)
(*    type ("int", "float", "str", "bool", "nan"), n/d the number as a     *)
(*    reduced fraction and s the text.  Floats are modelled as exact       *)
(*    rationals: rounding is outside this model.                           *)
(*  - A raised exception is the value Raised(kind) of an operator's result *)
(*    and, in the pipeline, the control position "raised".                 *)
(***************************************************************************)
EXTENDS Integers, Sequences, FiniteSets, TLC

VARIABLES
    pc,            \* control position of the running specification
    arg,           \* argument of the function under call (function specifications)
    ret,           \* its result
    year,          \* process_all_years: the loop variable `year`
    nrows,         \* get_player_data: rows of the roster page consumed so far
    players_data,  \* get_player_data: `players_data`, then `players` of process_all_years
    idx,           \* process_all_years: index of `player` in `players`
    all_players,   \* process_all_years: `all_players`
    df,            \* process_all_years: the DataFrame `df` it returns
    result,        \* analyze_war_by_position: `result_df`, or the exception raised
    response,      \* get_page: what the last request for a bio page returned
    saved          \* names of the CSV files written so far

vars == <<pc, arg, ret, year, nrows, players_data, idx, all_players, df, result,
          response, saved>>

(***************************************************************************)
(* Text                                                                    *)
(***************************************************************************)
Whitespace == {" "}

Lowercase == <<"a","b","c","d","e","f","g","h","i","j","k","l","m",
               "n","o","p","q","r","s","t","u","v","w","x","y","z">>

Uppercase == <<"A","B","C","D","E","F","G","H","I","J","K","L","M",
               "N","O","P","Q","R","S","T","U","V","W","X","Y","Z">>

upper_char(c) ==
    IF \E i \in 1..26 : Lowercase[i] = c
    THEN Uppercase[CHOOSE i \in 1..26 : Lowercase[i] = c]
    ELSE c

\* str.upper()
upper(s) == [i \in 1..Len(s) |-> upper_char(s[i])]

RECURSIVE lstrip(_)
lstrip(s) == IF s # <<>> /\ Head(s) \in Whitespace THEN lstrip(Tail(s)) ELSE s

RECURSIVE rstrip(_)
rstrip(s) ==
    IF s # <<>> /\ s[Len(s)] \in Whitespace THEN rstrip(SubSeq(s, 1, Len(s) - 1)) ELSE s

\* str.strip()
strip(s) == rstrip(lstrip(s))

\* Python's `sub in s` on strings
contains(sub, s) ==
    \E i \in 1..(Len(s) - Len(sub) + 1) : SubSeq(s, i, i + Len(sub) - 1) = sub

\* str.find(c) for a one-character c, 1-based; 0 when c does not occur
find(c, s) ==
    IF \E i \in 1..Len(s) : s[i] = c
    THEN CHOOSE i \in 1..Len(s) : s[i] = c /\ \A j \in 1..(i - 1) : s[j] # c
    ELSE 0

\* s.split(c)[0]
split_first(s, c) == IF find(c, s) = 0 THEN s ELSE SubSeq(s, 1, find(c, s) - 1)

\* s.split(c, 1)[1], for an s that holds c
split_rest(s, c) == SubSeq(s, find(c, s) + 1, Len(s))

\* len(s.split(c))
split_count(s, c) == 1 + Cardinality({i \in 1..Len(s) : s[i] = c})

(***************************************************************************)
(* Optional strings: None, or a str                                        *)
(***************************************************************************)
NoneStr == [isNone |-> TRUE, s |-> <<>>]
Str(s) == [isNone |-> FALSE, s |-> s]

(***************************************************************************)
(* Position Normalizer: normalize_position                                 *)
(***************************************************************************)
\* The canonical position codes, as the strings normalize_position returns.
Unknown == <<"U","n","k","n","o","w","n">>
UTIL == <<"U","T","I","L">>

CanonicalCodes ==
    { <<"C">>, <<"1","B">>, <<"2","B">>, <<"3","B">>, <<"S","S">>,
      <<"L","F">>, <<"C","F">>, <<"R","F">>, <<"O","F">>, <<"D","H">>,
      <<"P">>, <<"S","P">>, <<"R","P">>, <<"I","F">>, UTIL, Unknown }

\* position_chain with the generic 'OF' tested before 'LF', 'CF' and 'RF'.
swapped_chain(p) ==
    IF <<"C">> = p THEN <<"C">>
    ELSE IF contains(<<"C","A","T","C","H","E","R">>, p) THEN <<"C">>
    ELSE IF contains(<<"1","B">>, p) THEN <<"1","B">>
    ELSE IF contains(<<"2","B">>, p) THEN <<"2","B">>
    ELSE IF contains(<<"3","B">>, p) THEN <<"3","B">>
    ELSE IF contains(<<"S","S">>, p) THEN <<"S","S">>
    ELSE IF contains(<<"O","F">>, p) THEN <<"O","F">>
    ELSE IF contains(<<"L","F">>, p) THEN <<"L","F">>
    ELSE IF contains(<<"C","F">>, p) THEN <<"C","F">>
    ELSE IF contains(<<"R","F">>, p) THEN <<"R","F">>
    ELSE IF contains(<<"O","U","T","F","I","E","L","D","E","R">>, p) THEN <<"O","F">>
    ELSE IF contains(<<"O","U","F","I","E","L","D">>, p) THEN <<"O","F">>
    ELSE IF contains(<<"I","N","F">>, p) THEN <<"I","F">>
    ELSE IF contains(<<"D","H">>, p) THEN <<"D","H">>
    ELSE IF <<"P">> = p THEN <<"P">>
    ELSE IF contains(<<"P","I","T","C","H","E","R">>, p) THEN <<"P">>
    ELSE IF contains(<<"R","H","P">>, p) \/ contains(<<"L","H","P">>, p) THEN <<"P">>
    ELSE IF contains(<<"S","P">>, p) THEN <<"S","P">>
    ELSE IF contains(<<"R","P">>, p) THEN <<"R","P">>
    ELSE IF contains(UTIL, p) THEN UTIL
    ELSE IF contains(<<"U","T">>, p) THEN UTIL
    ELSE Unknown

\* The if/elif chain of normalize_position, on the stripped, upper-cased,
\* cut text; the first test that holds decides.
position_chain(p) ==
    IF <<"C">> = p THEN <<"C">>
    ELSE IF contains(<<"C","A","T","C","H","E","R">>, p) THEN <<"C">>
    ELSE IF contains(<<"1","B">>, p) THEN <<"1","B">>
    ELSE IF contains(<<"2","B">>, p) THEN <<"2","B">>
    ELSE IF contains(<<"3","B">>, p) THEN <<"3","B">>
    ELSE IF contains(<<"S","S">>, p) THEN <<"S","S">>
    ELSE IF contains(<<"L","F">>, p) THEN <<"L","F">>
    ELSE IF contains(<<"C","F">>, p) THEN <<"C","F">>
    ELSE IF contains(<<"R","F">>, p) THEN <<"R","F">>
    ELSE IF contains(<<"O","F">>, p) THEN <<"O","F">>
    ELSE IF contains(<<"O","U","T","F","I","E","L","D","E","R">>, p) THEN <<"O","F">>
    ELSE IF contains(<<"O","U","F","I","E","L","D">>, p) THEN <<"O","F">>
    ELSE IF contains(<<"I","N","F">>, p) THEN <<"I","F">>
    ELSE IF contains(<<"D","H">>, p) THEN <<"D","H">>
    ELSE IF <<"P">> = p THEN <<"P">>
    ELSE IF contains(<<"P","I","T","C","H","E","R">>, p) THEN <<"P">>
    ELSE IF contains(<<"R","H","P">>, p) \/ contains(<<"L","H","P">>, p) THEN <<"P">>
    ELSE IF contains(<<"S","P">>, p) THEN <<"S","P">>
    ELSE IF contains(<<"R","P">>, p) THEN <<"R","P">>
    ELSE IF contains(UTIL, p) THEN UTIL
    ELSE IF contains(<<"U","T">>, p) THEN UTIL
    ELSE Unknown

\* position_str.strip().upper(), then split('/')[0].strip() when it holds '/'
primary_position(s) ==
    LET t == upper(strip(s))
    IN  IF contains(<<"/">>, t) THEN strip(split_first(t, "/")) ELSE t

\* normalize_position(position_str); position_str is None or a str
normalize_position(position_str) ==
    IF position_str.isNone \/ position_str.s = <<>>
    THEN Unknown
    ELSE position_chain(primary_position(position_str.s))

(***************************************************************************)
(* Inputs of the Position Normalizer: None and every concatenation of at   *)
(* most MaxFragments fragments (the patterns the chain tests, lower-case   *)
(* spellings, the separator, a blank and a letter no pattern holds).       *)
(***************************************************************************)
MaxFragments == 3

PositionFragments ==
    { <<"C">>, <<"C","A","T","C","H","E","R">>, <<"1","B">>, <<"2","B">>,
      <<"3","B">>, <<"S","S">>, <<"L","F">>, <<"C","F">>, <<"R","F">>,
      <<"O","F">>, <<"O","U","T","F","I","E","L","D","E","R">>,
      <<"O","U","F","I","E","L","D">>, <<"I","N","F">>, <<"D","H">>,
      <<"P">>, <<"P","I","T","C","H","E","R">>, <<"R","H","P">>,
      <<"L","H","P">>, <<"S","P">>, <<"R","P">>, UTIL, <<"U","T">>,
      <<"/">>, <<" ">>, <<"r","h","p">>, <<"X">> }

RECURSIVE Concatenations(_)
Concatenations(n) ==
    IF n = 0 THEN { <<>> }
    ELSE LET shorter == Concatenations(n - 1)
         IN  shorter \cup { p \o f : p \in shorter, f \in PositionFragments }

PositionInputs == { NoneStr } \cup { Str(s) : s \in Concatenations(MaxFragments) }

\* Values of the variables a specification does not use.
Idle == [isNone |-> TRUE, s |-> <<>>]

InitNormalize ==
    /\ pc = "call"
    /\ arg \in PositionInputs
    /\ ret = Idle
    /\ year = 0 /\ nrows = 0 /\ players_data = <<>> /\ idx = 0
    /\ all_players = <<>> /\ df = Idle /\ result = Idle
    /\ response = Idle /\ saved = {}

CallNormalizePosition ==
    /\ pc = "call"
    /\ ret' = Str(normalize_position(arg))
    /\ pc' = "return"
    /\ UNCHANGED <<arg, year, nrows, players_data, idx, all_players, df, result,
                   response, saved>>

NextNormalize == CallNormalizePosition

SpecNormalize == InitNormalize /\ [][NextNormalize]_vars

(***************************************************************************)
(* Claim C1                                                                *)
(***************************************************************************)
\* Rules 3-11 of the Position Normalizer as the specification lists them, in
\* its order: an exact match or a substring test, and the code it yields.
PositionRules == <<
    [exact |-> TRUE,  pat |-> <<"C">>, code |-> <<"C">>],
    [exact |-> FALSE, pat |-> <<"C","A","T","C","H","E","R">>, code |-> <<"C">>],
    [exact |-> FALSE, pat |-> <<"1","B">>, code |-> <<"1","B">>],
    [exact |-> FALSE, pat |-> <<"2","B">>, code |-> <<"2","B">>],
    [exact |-> FALSE, pat |-> <<"3","B">>, code |-> <<"3","B">>],
    [exact |-> FALSE, pat |-> <<"S","S">>, code |-> <<"S","S">>],
    [exact |-> FALSE, pat |-> <<"L","F">>, code |-> <<"L","F">>],
    [exact |-> FALSE, pat |-> <<"C","F">>, code |-> <<"C","F">>],
    [exact |-> FALSE, pat |-> <<"R","F">>, code |-> <<"R","F">>],
    [exact |-> FALSE, pat |-> <<"O","F">>, code |-> <<"O","F">>],
    [exact |-> FALSE, pat |-> <<"O","U","T","F","I","E","L","D","E","R">>, code |-> <<"O","F">>],
    [exact |-> FALSE, pat |-> <<"O","U","F","I","E","L","D">>, code |-> <<"O","F">>],
    [exact |-> FALSE, pat |-> <<"I","N","F">>, code |-> <<"I","F">>],
    [exact |-> FALSE, pat |-> <<"D","H">>, code |-> <<"D","H">>],
    [exact |-> TRUE,  pat |-> <<"P">>, code |-> <<"P">>],
    [exact |-> FALSE, pat |-> <<"P","I","T","C","H","E","R">>, code |-> <<"P">>],
    [exact |-> FALSE, pat |-> <<"R","H","P">>, code |-> <<"P">>],
    [exact |-> FALSE, pat |-> <<"L","H","P">>, code |-> <<"P">>],
    [exact |-> FALSE, pat |-> <<"S","P">>, code |-> <<"S","P">>],
    [exact |-> FALSE, pat |-> <<"R","P">>, code |-> <<"R","P">>],
    [exact |-> FALSE, pat |-> <<"U","T","I","L">>, code |-> <<"U","T","I","L">>],
    [exact |-> FALSE, pat |-> <<"U","T">>, code |-> <<"U","T","I","L">>] >>

RuleMatches(rule, text) ==
    IF rule.exact THEN text = rule.pat ELSE contains(rule.pat, text)

\* The text the rules are evaluated on: upper-cased, cut at the first '/',
\* trimmed.
RuleText(s) == strip(split_first(upper(s), "/"))

FirstMatch(text) ==
    LET hits == { i \in 1..Len(PositionRules) : RuleMatches(PositionRules[i], text) }
    IN  IF hits = {} THEN Unknown
        ELSE PositionRules[CHOOSE i \in hits : \A j \in hits : i <= j].code

\* C1: normalize_position returns the code of the first rule of the
\* specification's ordered list that matches the trimmed, upper-cased text
\* cut at the first '/'; an empty or absent input gives Unknown; a string
\* holding '/' is classified as its prefix before the first '/'; the result
\* is always a canonical code; "3B/OF" gives 3B, "rhp" gives P, "" gives
\* Unknown.
C1_FirstMatchingRule ==
    pc = "return" =>
        /\ ret.s \in CanonicalCodes
        /\ ret.s = IF arg.isNone \/ arg.s = <<>>
                   THEN Unknown
                   ELSE FirstMatch(RuleText(arg.s))
        /\ (~arg.isNone /\ contains(<<"/">>, arg.s))
              => ret.s = normalize_position(Str(split_first(arg.s, "/")))
        /\ arg = Str(<<"3","B","/","O","F">>) => ret.s = <<"3","B">>
        /\ arg = Str(<<"r","h","p">>) => ret.s = <<"P">>
        /\ arg = Str(<<>>) => ret.s = Unknown

\* A multi-position string whose prefix and suffix match different rules has
\* been classified by its prefix.
C1_Witness ==
    /\ pc = "return"
    /\ arg = Str(<<"3","B","/","O","F">>)
    /\ ret.s = <<"3","B">>

(***************************************************************************)
(* Numbers and dict values                                                 *)
(***************************************************************************)
RECURSIVE GCD(_, _)
GCD(a, b) == IF b = 0 THEN a ELSE GCD(b, a % b)

Abs(x) == IF x < 0 THEN -x ELSE x

\* The fraction n/d (d # 0) in lowest terms with a positive denominator.
Q(n, d) ==
    LET g == GCD(Abs(n), Abs(d))
        sgn == IF d < 0 THEN -1 ELSE 1
    IN  [n |-> sgn * (n \div g), d |-> sgn * (d \div g)]

QAdd(x, y) == Q(x.n * y.d + y.n * x.d, x.d * y.d)
QSub(x, y) == Q(x.n * y.d - y.n * x.d, x.d * y.d)
QMul(x, y) == Q(x.n * y.n, x.d * y.d)
QDiv(x, y) == Q(x.n * y.d, x.d * y.n)
QPos(x) == x.n > 0

IntVal(n) == [t |-> "int", n |-> n, d |-> 1, s |-> <<>>]
FloatVal(q) == [t |-> "float", n |-> q.n, d |-> q.d, s |-> <<>>]
TextVal(s) == [t |-> "str", n |-> 0, d |-> 1, s |-> s]
BoolVal(b) == [t |-> "bool", n |-> IF b THEN 1 ELSE 0, d |-> 1, s |-> <<>>]
\* float('nan') / pandas NaN
NaN == [t |-> "nan", n |-> 0, d |-> 1, s |-> <<>>]
\* An exception of class `kind` leaving the function
Raised(kind) == [t |-> kind, n |-> 0, d |-> 1, s |-> <<>>]

IsNumber(v) == v.t \in {"int", "float", "bool"}
IsStr(v) == v.t = "str"
HasRaised(v) == v.t \in {"TypeError", "KeyError", "ValueError"}

\* bool(v): a number is true when it is not zero, a str when it is not empty
Truthy(v) == IF IsStr(v) THEN v.s # <<>> ELSE v.n # 0

\* dict.get(key) is not None
Has(player_data, key) == key \in DOMAIN player_data

(***************************************************************************)
(* int(value) and float(value) on the text of a table cell.  The cell      *)
(* alphabet is digits, '-', '+', '.', ' ' and letters other than those of  *)
(* 'inf', 'nan' and the exponent 'e'; on it Python's grammars are: int: an *)
(* optional sign and one or more digits; float: an optional sign, digits   *)
(* with at most one '.', and at least one digit.                           *)
(***************************************************************************)
Digits == <<"0","1","2","3","4","5","6","7","8","9">>

IsDigit(c) == \E i \in 1..10 : Digits[i] = c
DigitValue(c) == (CHOOSE i \in 1..10 : Digits[i] = c) - 1

RECURSIVE DigitsValue(_)
DigitsValue(s) ==
    IF s = <<>> THEN 0
    ELSE 10 * DigitsValue(SubSeq(s, 1, Len(s) - 1)) + DigitValue(s[Len(s)])

RECURSIVE Pow10(_)
Pow10(k) == IF k = 0 THEN 1 ELSE 10 * Pow10(k - 1)

HasSign(s) == s # <<>> /\ Head(s) \in {"-", "+"}
Unsigned(s) == IF HasSign(s) THEN Tail(s) ELSE s
SignOf(s) == IF s # <<>> /\ Head(s) = "-" THEN -1 ELSE 1

\* int(value) succeeds
int_ok(s) ==
    LET u == Unsigned(strip(s))
    IN  u # <<>> /\ \A i \in 1..Len(u) : IsDigit(u[i])

int_value(s) == SignOf(strip(s)) * DigitsValue(Unsigned(strip(s)))

\* float(value) succeeds
float_ok(s) ==
    LET u == Unsigned(strip(s))
    IN  /\ \A i \in 1..Len(u) : IsDigit(u[i]) \/ u[i] = "."
        /\ Cardinality({i \in 1..Len(u) : u[i] = "."}) <= 1
        /\ \E i \in 1..Len(u) : IsDigit(u[i])

float_value(s) ==
    LET u == Unsigned(strip(s))
        dot == find(".", u)
        whole == IF dot = 0 THEN u ELSE SubSeq(u, 1, dot - 1)
        frac == IF dot = 0 THEN <<>> ELSE SubSeq(u, dot + 1, Len(u))
    IN  Q(SignOf(strip(s)) * DigitsValue(whole \o frac), Pow10(Len(frac)))

(***************************************************************************)
(* WAR Calculator: calculate_war                                           *)
(***************************************************************************)
runs_per_win == Q(10, 1)
replacement_level == Q(0, 1)
league_avg_woba == Q(320, 1000)
woba_scale == Q(12, 10)
league_avg_era == Q(4, 1)

\* self.position_adjustments.get(position, 0); position is None or a str
position_adjustments(position) ==
    IF position.isNone THEN Q(0, 1)
    ELSE IF position.s = <<"C">> THEN Q(125, 10)
    ELSE IF position.s = <<"1","B">> THEN Q(-125, 10)
    ELSE IF position.s = <<"2","B">> THEN Q(25, 10)
    ELSE IF position.s = <<"3","B">> THEN Q(25, 10)
    ELSE IF position.s = <<"S","S">> THEN Q(75, 10)
    ELSE IF position.s = <<"L","F">> THEN Q(-75, 10)
    ELSE IF position.s = <<"C","F">> THEN Q(25, 10)
    ELSE IF position.s = <<"R","F">> THEN Q(-75, 10)
    ELSE IF position.s = <<"D","H">> THEN Q(-175, 10)
    ELSE IF position.s = <<"O","F">> THEN Q(-25, 10)
    ELSE Q(0, 1)

\* player_data.get('position')
get_position(player_data) ==
    IF Has(player_data, "position") THEN Str(player_data["position"].s) ELSE NoneStr

PitcherCodes == { <<"P">>, <<"S","P">>, <<"R","P">> }

\* lines 336-342: ip = player_data.get('pitching_IP', 0), a str converted
\* with float() and taken as 0 when that fails
innings_pitched(player_data) ==
    IF ~Has(player_data, "pitching_IP") THEN Q(0, 1)
    ELSE LET ip == player_data["pitching_IP"]
         IN  IF IsStr(ip)
             THEN IF float_ok(ip.s) THEN float_value(ip.s) ELSE Q(0, 1)
             ELSE Q(ip.n, ip.d)

\* line 351: position == 'RP' and player_data.get('pitching_SV')
reliever_boost(player_data, position) ==
    /\ position.s = <<"R","P">>
    /\ Has(player_data, "pitching_SV")
    /\ Truthy(player_data["pitching_SV"])

\* lines 333-352, the pitcher branch
pitcher_war(player_data, position) ==
    LET ip == innings_pitched(player_data)
    IN  IF Has(player_data, "pitching_ERA") /\ QPos(ip)
        THEN LET era == player_data["pitching_ERA"]
             IN  IF ~IsNumber(era)
                 THEN Raised("TypeError")          \* 4.0 - 'text'
                 ELSE LET era_difference == QSub(league_avg_era, era)
                          war_value == QDiv(QMul(era_difference, QDiv(ip, Q(9, 1))),
                                            runs_per_win)
                      IN  IF reliever_boost(player_data, position)
                          THEN FloatVal(QMul(war_value, Q(15, 10)))
                          ELSE FloatVal(war_value)
        ELSE FloatVal(Q(0, 1))

\* player_data.get(key, 0)
get_or_zero(player_data, key) ==
    IF Has(player_data, key) THEN player_data[key] ELSE IntVal(0)

\* lines 379-384: the flat bonus of catchers and middle infielders
position_bonus(position) ==
    IF position.isNone THEN Q(0, 1)
    ELSE IF position.s = <<"C">> THEN Q(5, 10)
    ELSE IF position.s \in { <<"S","S">>, <<"2","B">> } THEN Q(3, 10)
    ELSE Q(0, 1)

\* line 367: pa = ab + bb + hbp
plate_appearances(ab, bb, hbp) == QAdd(QAdd(ab, bb), hbp)

\* lines 353-384, the position-player branch
batter_war(player_data, position) ==
    IF /\ Has(player_data, "batting_OBP")
       /\ Has(player_data, "batting_SLG")
       /\ Has(player_data, "batting_AB")
    THEN LET obp == player_data["batting_OBP"]
             slg == player_data["batting_SLG"]
             ab == player_data["batting_AB"]
             bb == get_or_zero(player_data, "batting_BB")
             hbp == get_or_zero(player_data, "batting_HBP")
         IN  IF \E v \in {obp, slg, ab, bb, hbp} : ~IsNumber(v)
             THEN Raised("TypeError")      \* 'text' * 1.75, 'text' + 0, float * 'text'
             ELSE LET woba == QAdd(QMul(obp, Q(175, 100)), QMul(slg, Q(7, 10)))
                      pa == plate_appearances(ab, bb, hbp)
                      offensive_runs ==
                          QDiv(QMul(QMul(QSub(woba, league_avg_woba), woba_scale), pa),
                               Q(100, 1))
                      position_runs ==
                          QDiv(QMul(position_adjustments(position), pa), Q(600, 1))
                      war_value ==
                          QAdd(QDiv(QAdd(offensive_runs, position_runs), runs_per_win),
                               replacement_level)
                  IN  FloatVal(QAdd(war_value, position_bonus(position)))
    ELSE FloatVal(Q(0, 1))

\* calculate_war(player_data): the float returned, or the exception raised
calculate_war(player_data) ==
    LET position == get_position(player_data)
    IN  IF ~position.isNone /\ position.s \in PitcherCodes
        THEN pitcher_war(player_data, position)
        ELSE batter_war(player_data, position)

(***************************************************************************)
(* Inputs of the WAR Calculator: a position (or none) and, for each stat   *)
(* key, no entry or one of the values the Metric Extractor stores: a       *)
(* parsed number or the cell's raw text.                                   *)
(***************************************************************************)
\* The dicts of `base` and their extensions by key -> v, v in values
WithOptional(base, key, values) ==
    base \cup { [k \in DOMAIN f \cup {key} |-> IF k = key THEN v ELSE f[k]] :
                f \in base, v \in values }

Dash == <<"-">>

\* dict()
EmptyDict == [k \in {} |-> IntVal(0)]

WarPositions ==
    { EmptyDict } \cup
    { [k \in {"position"} |-> TextVal(c)] : c \in CanonicalCodes }

EraValues == { FloatVal(Q(3, 1)), FloatVal(Q(45, 10)), TextVal(Dash) }
IpValues == { IntVal(50), IntVal(0), TextVal(<<"1","2",".","1">>), TextVal(Dash) }
SvValues == { IntVal(0), IntVal(5), TextVal(Dash), TextVal(<<>>) }
ObpValues == { FloatVal(Q(400, 1000)), FloatVal(Q(250, 1000)), TextVal(Dash) }
SlgValues == { FloatVal(Q(500, 1000)), TextVal(Dash) }
AbValues == { IntVal(200), IntVal(0), TextVal(Dash) }
BbValues == { IntVal(30), TextVal(Dash) }
HbpValues == { IntVal(5) }

PitchingRecords ==
    WithOptional(WithOptional(WithOptional(WarPositions,
        "pitching_ERA", EraValues), "pitching_IP", IpValues), "pitching_SV", SvValues)

BattingRecords ==
    WithOptional(WithOptional(WithOptional(WithOptional(WithOptional(WarPositions,
        "batting_OBP", ObpValues), "batting_SLG", SlgValues), "batting_AB", AbValues),
        "batting_BB", BbValues), "batting_HBP", HbpValues)

WarInputs == PitchingRecords \cup BattingRecords

InitWar ==
    /\ pc = "call"
    /\ arg \in WarInputs
    /\ ret = Idle
    /\ year = 0 /\ nrows = 0 /\ players_data = <<>> /\ idx = 0
    /\ all_players = <<>> /\ df = Idle /\ result = Idle
    /\ response = Idle /\ saved = {}

CallCalculateWar ==
    /\ pc = "call"
    /\ ret' = calculate_war(arg)
    /\ pc' = "return"
    /\ UNCHANGED <<arg, year, nrows, players_data, idx, all_players, df, result,
                   response, saved>>

NextWar == CallCalculateWar

SpecWar == InitWar /\ [][NextWar]_vars

(***************************************************************************)
(* Claims C2 and C3                                                        *)
(***************************************************************************)
IsPitcherRecord(r) == Has(r, "position") /\ r["position"].s \in PitcherCodes

\* A recorded save total greater than 0: a number, and positive.
SavesPositive(r) ==
    /\ Has(r, "pitching_SV")
    /\ IsNumber(r["pitching_SV"])
    /\ r["pitching_SV"].n > 0

\* (4.0 - era) * (ip / 9) / 10, times 1.5 for an RP with saves > 0
ClaimedPitcherWar(r) ==
    LET base == QDiv(QMul(QSub(Q(4, 1), r["pitching_ERA"]),
                          QDiv(innings_pitched(r), Q(9, 1))), Q(10, 1))
    IN  IF r["position"].s = <<"R","P">> /\ SavesPositive(r)
        THEN QMul(base, Q(3, 2))
        ELSE base

\* C2: for a record whose position is P, SP or RP, calculate_war returns 0.0
\* unless ERA is present and innings pitched > 0; otherwise it returns
\* (4.0 - era) * (ip / 9) / 10, multiplied by 1.5 exactly when the position
\* is RP and the recorded save total is greater than 0 (not when the save
\* field is absent, zero or not a number).
\* Stated on the records whose ERA is absent or a number, where 4.0 - era
\* is defined (a raw-text ERA is the case of C5).
C2_PitcherWar ==
    (/\ pc = "return" /\ IsPitcherRecord(arg)
     /\ Has(arg, "pitching_ERA") => IsNumber(arg["pitching_ERA"]))
    => ret = IF ~Has(arg, "pitching_ERA") \/ ~QPos(innings_pitched(arg))
             THEN FloatVal(Q(0, 1))
             ELSE FloatVal(ClaimedPitcherWar(arg))

\* The part of C2 the code does satisfy: on records whose ERA and save
\* fields are numbers (or absent) the value is the claimed one.
PitcherWarOnNumbers ==
    (/\ pc = "return" /\ IsPitcherRecord(arg)
     /\ Has(arg, "pitching_ERA") => IsNumber(arg["pitching_ERA"])
     /\ Has(arg, "pitching_SV") => IsNumber(arg["pitching_SV"]))
    => ret = IF ~Has(arg, "pitching_ERA") \/ ~QPos(innings_pitched(arg))
             THEN FloatVal(Q(0, 1))
             ELSE FloatVal(ClaimedPitcherWar(arg))

\* The glossary's position adjustment table; 0 for every other code.
GlossaryAdjustment(code) ==
    CASE code = <<"C">> -> Q(125, 10)
      [] code = <<"1","B">> -> Q(-125, 10)
      [] code \in { <<"2","B">>, <<"3","B">>, <<"C","F">> } -> Q(25, 10)
      [] code = <<"S","S">> -> Q(75, 10)
      [] code \in { <<"L","F">>, <<"R","F">> } -> Q(-75, 10)
      [] code = <<"D","H">> -> Q(-175, 10)
      [] code = <<"O","F">> -> Q(-25, 10)
      [] OTHER -> Q(0, 1)

BattingKeys == { "batting_OBP", "batting_SLG", "batting_AB" }

\* ((woba - 0.320) * 1.2 * pa / 100 + adjustment[position] * pa / 600) / 10,
\* plus 0.5 for C and 0.3 for SS and 2B
ClaimedBatterWar(r) ==
    LET code == IF Has(r, "position") THEN r["position"].s ELSE Unknown
        bb == IF Has(r, "batting_BB") THEN r["batting_BB"] ELSE Q(0, 1)
        hbp == IF Has(r, "batting_HBP") THEN r["batting_HBP"] ELSE Q(0, 1)
        pa == QAdd(r["batting_AB"], QAdd(bb, hbp))
        woba == QAdd(QMul(r["batting_OBP"], Q(7, 4)), QMul(r["batting_SLG"], Q(7, 10)))
        runs == QAdd(QDiv(QMul(QMul(QSub(woba, Q(8, 25)), Q(6, 5)), pa), Q(100, 1)),
                     QDiv(QMul(GlossaryAdjustment(code), pa), Q(600, 1)))
        bonus == IF code = <<"C">> THEN Q(1, 2)
                 ELSE IF code \in { <<"S","S">>, <<"2","B">> } THEN Q(3, 10)
                 ELSE Q(0, 1)
    IN  QAdd(QDiv(runs, Q(10, 1)), bonus)

BattingNumbers(r) ==
    \A k \in (BattingKeys \cup {"batting_BB", "batting_HBP"}) \cap DOMAIN r :
        IsNumber(r[k])

\* C3: for a record whose position is not P, SP or RP, calculate_war returns
\* 0.0 when OBP, SLG or at-bats is absent; otherwise, with pa = ab + bb + hbp
\* (walks and hit-by-pitch 0 when absent) and woba = obp*1.75 + slg*0.7, it
\* returns ((woba - 0.320) * 1.2 * pa / 100 + adjustment[position] * pa / 600)
\* / 10, plus 0.5 for C or 0.3 for SS and 2B, with the glossary's adjustment
\* table (0 for every other code).
C3_BatterWar ==
    (pc = "return" /\ ~IsPitcherRecord(arg)) =>
        IF ~(BattingKeys \subseteq DOMAIN arg)
        THEN ret = FloatVal(Q(0, 1))
        ELSE /\ ret.t = "float"
             /\ BattingNumbers(arg) => ret = FloatVal(ClaimedBatterWar(arg))

\* The part of C3 the code does satisfy: on records whose batting fields are
\* numbers (or absent) the value is the claimed one.
BatterWarOnNumbers ==
    (pc = "return" /\ ~IsPitcherRecord(arg) /\ BattingNumbers(arg))
    => ret = IF ~(BattingKeys \subseteq DOMAIN arg)
             THEN FloatVal(Q(0, 1))
             ELSE FloatVal(ClaimedBatterWar(arg))

\* The specification's worked examples: SP, era 3.0, ip 50 gives 5/9
\* (0.5556); SS, obp .400, slg .500, ab 200, bb 30, hbp 5 gives 0.79961.
WarExamples ==
    /\ calculate_war([k \in {"position", "pitching_ERA", "pitching_IP"} |->
           CASE k = "position" -> TextVal(<<"S","P">>)
             [] k = "pitching_ERA" -> FloatVal(Q(3, 1))
             [] OTHER -> IntVal(50)]) = FloatVal(Q(5, 9))
    /\ calculate_war([k \in {"position", "batting_OBP", "batting_SLG", "batting_AB",
                             "batting_BB", "batting_HBP"} |->
           CASE k = "position" -> TextVal(<<"S","S">>)
             [] k = "batting_OBP" -> FloatVal(Q(400, 1000))
             [] k = "batting_SLG" -> FloatVal(Q(500, 1000))
             [] k = "batting_AB" -> IntVal(200)
             [] k = "batting_BB" -> IntVal(30)
             [] OTHER -> IntVal(5)]) = FloatVal(Q(479766, 600000))

(***************************************************************************)
(* Metric Extractor: the metrics table and the extraction loop of          *)
(* get_player_data                                                         *)
(***************************************************************************)
\* The items of the dict display `metrics = {...}` in source order.
metric_items == <<
    [metric_key |-> "AVG", data_label |-> "AVG", key |-> "batting_AVG"],
    [metric_key |-> "OBP", data_label |-> "OB%", key |-> "batting_OBP"],
    [metric_key |-> "SLG", data_label |-> "SLG%", key |-> "batting_SLG"],
    [metric_key |-> "OPS", data_label |-> "OPS", key |-> "batting_OPS"],
    [metric_key |-> "RBI", data_label |-> "RBI", key |-> "batting_RBI"],
    [metric_key |-> "R", data_label |-> "R", key |-> "batting_R"],
    [metric_key |-> "H", data_label |-> "H", key |-> "batting_H"],
    [metric_key |-> "2B", data_label |-> "2B", key |-> "batting_2B"],
    [metric_key |-> "3B", data_label |-> "3B", key |-> "batting_3B"],
    [metric_key |-> "HR", data_label |-> "HR", key |-> "batting_HR"],
    [metric_key |-> "BB", data_label |-> "BB", key |-> "batting_BB"],
    [metric_key |-> "SO", data_label |-> "SO", key |-> "batting_SO"],
    [metric_key |-> "AB", data_label |-> "AB", key |-> "batting_AB"],
    [metric_key |-> "SB", data_label |-> "SB", key |-> "batting_SB"],
    [metric_key |-> "ERA", data_label |-> "ERA", key |-> "pitching_ERA"],
    [metric_key |-> "WHIP", data_label |-> "WHIP", key |-> "pitching_WHIP"],
    [metric_key |-> "W-L", data_label |-> "W-L", key |-> "pitching_WL"],
    [metric_key |-> "APP-GS", data_label |-> "APP-GS", key |-> "pitching_APP_GS"],
    [metric_key |-> "CG", data_label |-> "CG", key |-> "pitching_CG"],
    [metric_key |-> "SHO", data_label |-> "SHO", key |-> "pitching_SHO"],
    [metric_key |-> "SV", data_label |-> "SV", key |-> "pitching_SV"],
    [metric_key |-> "IP", data_label |-> "IP", key |-> "pitching_IP"],
    [metric_key |-> "H", data_label |-> "H", key |-> "pitching_H"],
    [metric_key |-> "R", data_label |-> "R", key |-> "pitching_R"],
    [metric_key |-> "ER", data_label |-> "ER", key |-> "pitching_ER"],
    [metric_key |-> "BB", data_label |-> "BB", key |-> "pitching_BB"],
    [metric_key |-> "SO", data_label |-> "SO", key |-> "pitching_SO"],
    [metric_key |-> "2B", data_label |-> "2B", key |-> "pitching_2B"],
    [metric_key |-> "3B", data_label |-> "3B", key |-> "pitching_3B"],
    [metric_key |-> "HR", data_label |-> "HR", key |-> "pitching_HR"],
    [metric_key |-> "B/AVG", data_label |-> "B/AVG", key |-> "pitching_BAVG"],
    [metric_key |-> "WP", data_label |-> "WP", key |-> "pitching_WP"],
    [metric_key |-> "HBP", data_label |-> "HBP", key |-> "pitching_HBP"],
    [metric_key |-> "BK", data_label |-> "BK", key |-> "pitching_BK"],
    [metric_key |-> "SFA", data_label |-> "SFA", key |-> "pitching_SFA"],
    [metric_key |-> "SHA", data_label |-> "SHA", key |-> "pitching_SHA"] >>

\* The dict the display builds: a key written twice keeps the place of its
\* first item and the value of its last.
metric_keys ==
    LET first(i) == \A j \in 1..(i - 1) : metric_items[j].metric_key # metric_items[i].metric_key
        F[i \in 0..Len(metric_items)] ==
            IF i = 0 THEN <<>>
            ELSE IF first(i) THEN Append(F[i - 1], metric_items[i].metric_key) ELSE F[i - 1]
    IN  F[Len(metric_items)]

\* metrics[metric_key]
metrics(metric_key) ==
    metric_items[CHOOSE i \in 1..Len(metric_items) :
        /\ metric_items[i].metric_key = metric_key
        /\ \A j \in (i + 1)..Len(metric_items) : metric_items[j].metric_key # metric_key]

\* line 180 and line 185: the metric keys converted with float() and int()
rate_metrics == {"AVG", "OBP", "SLG", "OPS", "ERA", "WHIP", "B/AVG"}
count_metrics == {"RBI", "R", "H", "2B", "3B", "HR", "BB", "SO", "AB", "IP",
                  "HBP", "WP", "BK", "SFA", "SHA", "SV"}

\* player_data[key] = v
Put(player_data, key, v) ==
    [k \in DOMAIN player_data \cup {key} |-> IF k = key THEN v ELSE player_data[k]]

\* lines 169-177: an SB cell whose text holds '-'
store_stolen_bases(player_data, key, value) ==
    IF split_count(value, "-") = 2
    THEN LET first == split_first(value, "-")
             second == split_rest(value, "-")
         IN  IF ~int_ok(first)
             THEN Put(player_data, key, TextVal(value))
             ELSE IF ~int_ok(second)
             THEN Put(Put(player_data, "batting_SB_successful", IntVal(int_value(first))),
                      key, TextVal(value))
             ELSE Put(Put(Put(player_data,
                      "batting_SB_successful", IntVal(int_value(first))),
                      "batting_SB_attempted", IntVal(int_value(second))),
                      key, TextVal(value))
    ELSE player_data

\* lines 164-191: one turn of the loop, for a row whose cells are `cells`
\* (data-label -> text of the first cell with that label)
extract_metric(player_data, metric_key, cells) ==
    LET metric_info == metrics(metric_key)
    IN  IF metric_info.data_label \notin DOMAIN cells THEN player_data
        ELSE LET value == strip(cells[metric_info.data_label])
             IN  IF metric_key = "SB" /\ contains(<<"-">>, value)
                 THEN store_stolen_bases(player_data, metric_info.key, value)
                 ELSE IF metric_key \in rate_metrics
                 THEN Put(player_data, metric_info.key,
                          IF float_ok(value) THEN FloatVal(float_value(value))
                          ELSE TextVal(value))
                 ELSE IF metric_key \in count_metrics
                 THEN Put(player_data, metric_info.key,
                          IF int_ok(value) THEN IntVal(int_value(value))
                          ELSE TextVal(value))
                 ELSE Put(player_data, metric_info.key, TextVal(value))

\* lines 163-191: the loop over metrics.items()
extract_metrics(player_data, cells) ==
    LET F[i \in 0..Len(metric_keys)] ==
            IF i = 0 THEN player_data
            ELSE extract_metric(F[i - 1], metric_keys[i], cells)
    IN  F[Len(metric_keys)]

\* lines 81-85: the dict a row's record starts as
new_player_data(y) ==
    [k \in {"year", "position", "is_in_state"} |->
        CASE k = "year" -> IntVal(y)
          [] k = "position" -> TextVal(Unknown)
          [] OTHER -> BoolVal(FALSE)]

(***************************************************************************)
(* Inputs of the Metric Extractor: a row of the batting table or of the    *)
(* pitching table of the roster page, as data-label -> cell text.  A       *)
(* stolen-base cell holds any text of at most MaxCellLen characters over   *)
(* SbAlphabet.                                                             *)
(***************************************************************************)
MaxCellLen == 4

SbAlphabet == {"5", "6", "-", "x"}

RECURSIVE TextsUpTo(_, _)
TextsUpTo(alphabet, n) ==
    IF n = 0 THEN { <<>> }
    ELSE LET shorter == TextsUpTo(alphabet, n - 1)
         IN  shorter \cup { Append(s, c) : s \in shorter, c \in alphabet }

SbTexts == TextsUpTo(SbAlphabet, MaxCellLen)

\* A row with no stat cell
NoCells == [k \in {} |-> <<>>]

BattingCells ==
    WithOptional(WithOptional(WithOptional(WithOptional({NoCells},
        "OB%", { <<".","4","0","0">>, Dash }),
        "BB", { <<"3","0">>, Dash }),
        "H", { <<"7">> }),
        "SB", SbTexts)

PitchingCells ==
    WithOptional(WithOptional(WithOptional({NoCells},
        "IP", { <<"1","2",".","1">>, <<"5","0">> }),
        "BB", { <<"3","0">>, Dash }),
        "H", { <<"7">> })

ExtractInputs ==
    { [section |-> "batting", cells |-> c] : c \in BattingCells } \cup
    { [section |-> "pitching", cells |-> c] : c \in PitchingCells }

StartYear == 2015

InitExtract ==
    /\ pc = "call"
    /\ arg \in ExtractInputs
    /\ ret = Idle
    /\ year = 0 /\ nrows = 0 /\ players_data = <<>> /\ idx = 0
    /\ all_players = <<>> /\ df = Idle /\ result = Idle
    /\ response = Idle /\ saved = {}

CallExtractMetrics ==
    /\ pc = "call"
    /\ ret' = extract_metrics(new_player_data(StartYear), arg.cells)
    /\ pc' = "return"
    /\ UNCHANGED <<arg, year, nrows, players_data, idx, all_players, df, result,
                   response, saved>>

NextExtract == CallExtractMetrics

SpecExtract == InitExtract /\ [][NextExtract]_vars

(***************************************************************************)
(* Claims C7 and C8                                                        *)
(***************************************************************************)
SharedLabels == {"H", "R", "BB", "SO", "2B", "3B", "HR"}

\* The key of a shared label in the schema section being read.
SectionKey(section, label) ==
    IF section = "batting"
    THEN CASE label = "H" -> "batting_H" [] label = "R" -> "batting_R"
           [] label = "BB" -> "batting_BB" [] label = "SO" -> "batting_SO"
           [] label = "2B" -> "batting_2B" [] label = "3B" -> "batting_3B"
           [] label = "HR" -> "batting_HR"
    ELSE CASE label = "H" -> "pitching_H" [] label = "R" -> "pitching_R"
           [] label = "BB" -> "pitching_BB" [] label = "SO" -> "pitching_SO"
           [] label = "2B" -> "pitching_2B" [] label = "3B" -> "pitching_3B"
           [] label = "HR" -> "pitching_HR"

\* A count stat's typed value: the integer, or the raw text kept on failure.
CountValue(text) ==
    IF int_ok(text) THEN IntVal(int_value(text)) ELSE TextVal(text)

\* C7: for each label shared by the batting and pitching schemas (H, R, BB,
\* SO, 2B, 3B, HR) the extractor stores the cell's value under batting_<label>
\* when the row is read for batting columns and under pitching_<label> when
\* it is read for pitching columns; a batter's walks are stored as batting_BB.
C7_SharedLabelKeys ==
    pc = "return" =>
        \A label \in SharedLabels \cap DOMAIN arg.cells :
            /\ SectionKey(arg.section, label) \in DOMAIN ret
            /\ ret[SectionKey(arg.section, label)] = CountValue(strip(arg.cells[label]))

\* A text of the form a-b with integers a and b.
IsPair(text) ==
    /\ split_count(text, "-") = 2
    /\ int_ok(split_first(text, "-"))
    /\ int_ok(split_rest(text, "-"))

\* C8: for every stolen-base cell present in a row, batting_SB holds the
\* cell's raw text; when the text is a-b with integers a and b,
\* batting_SB_successful = a and batting_SB_attempted = b; for any other text
\* (more than one '-', a part that is no integer) the raw text is still kept.
C8_StolenBases ==
    (pc = "return" /\ "SB" \in DOMAIN arg.cells) =>
        LET text == strip(arg.cells["SB"])
        IN  /\ "batting_SB" \in DOMAIN ret
            /\ ret["batting_SB"] = TextVal(text)
            /\ IsPair(text) =>
                  /\ "batting_SB_successful" \in DOMAIN ret
                  /\ ret["batting_SB_successful"] = IntVal(int_value(split_first(text, "-")))
                  /\ "batting_SB_attempted" \in DOMAIN ret
                  /\ ret["batting_SB_attempted"] = IntVal(int_value(split_rest(text, "-")))

\* The part of C8 the code does satisfy: a text with no '-' or exactly one
\* is kept, and a-b is split.
StolenBasesAtMostOneDash ==
    (/\ pc = "return" /\ "SB" \in DOMAIN arg.cells
     /\ split_count(strip(arg.cells["SB"]), "-") <= 2) =>
        LET text == strip(arg.cells["SB"])
        IN  /\ "batting_SB" \in DOMAIN ret
            /\ ret["batting_SB"] = TextVal(text)
            /\ IsPair(text) =>
                  /\ "batting_SB_successful" \in DOMAIN ret
                  /\ ret["batting_SB_successful"] = IntVal(int_value(split_first(text, "-")))
                  /\ "batting_SB_attempted" \in DOMAIN ret
                  /\ ret["batting_SB_attempted"] = IntVal(int_value(split_rest(text, "-")))

(***************************************************************************)
(* State Classifier and record enrichment: is_california_state,            *)
(* extract_hometown_state, get_player_hometown                             *)
(***************************************************************************)
California == <<"C","a","l","i","f","o","r","n","i","a">>

california_states ==
    { <<"C","A">>, <<"C","a","l","i","f","o","r","n","i","a">>, <<"C","a","l","i","f",".">>, <<"C","a","l","i","f">>, <<"C","a","l","f",".">>, <<"C","a","l","f">> }

\* is_california_state that ignores the case of the state text
california_any_case(state) ==
    upper(strip(state)) \in { upper(c) : c \in california_states }

\* is_california_state(state)
is_california_state(state) == strip(state) \in california_states

(***************************************************************************)
(* A bio page as the code reads it: what get_page returned (fetched FALSE: *)
(* None), whether soup.get_text() is non-empty, the text after the         *)
(* 'Position' field label, the texts after the 'Hometown' field labels in  *)
(* page order, and the text of the .sidearm-roster-player-position         *)
(* element.                                                                *)
(***************************************************************************)
NoPage ==
    [fetched |-> FALSE, text |-> FALSE, position_label |-> NoneStr,
     hometowns |-> <<>>, position_elem |-> NoneStr]

\* extract_hometown_state(soup): (None, None), or the two stripped parts of
\* the first 'Hometown' text that holds a comma
extract_hometown_state(soup) ==
    LET hits == { i \in 1..Len(soup.hometowns) : contains(<<",">>, strip(soup.hometowns[i])) }
    IN  IF hits = {}
        THEN [hometown |-> NoneStr, state |-> NoneStr]
        ELSE LET location == strip(soup.hometowns[CHOOSE i \in hits : \A j \in hits : i <= j])
             IN  [hometown |-> Str(strip(split_first(location, ","))),
                  state |-> Str(strip(split_rest(location, ",")))]

\* x if x else default, for an optional str x
OrDefault(x, default) == IF x.isNone \/ x.s = <<>> THEN default ELSE x.s

\* lines 204-207 and 213-216: the record of a player taken as Californian
california_default(player_data) ==
    Put(Put(Put(player_data, "hometown", TextVal(Unknown)),
            "state", TextVal(California)),
        "is_in_state", BoolVal(TRUE))

\* lines 222-226
with_hometown(player_data, soup) ==
    IF soup.text
    THEN LET found == extract_hometown_state(soup)
         IN  Put(Put(player_data, "hometown", TextVal(OrDefault(found.hometown, Unknown))),
                 "state", TextVal(OrDefault(found.state, California)))
    ELSE player_data

\* lines 229-232
with_bio_position(player_data, soup) ==
    IF player_data["position"].s = Unknown /\ ~soup.position_elem.isNone
    THEN Put(player_data, "position",
             TextVal(normalize_position(Str(strip(soup.position_elem.s)))))
    ELSE player_data

\* lines 235-239
with_in_state(player_data) ==
    IF Has(player_data, "state") /\ Truthy(player_data["state"])
    THEN Put(player_data, "is_in_state", BoolVal(is_california_state(player_data["state"].s)))
    ELSE Put(Put(player_data, "is_in_state", BoolVal(TRUE)), "state", TextVal(California))

\* get_player_hometown(player_data), html_content being what get_page returns
\* for the record's bio_url
get_player_hometown(player_data, html_content) ==
    IF ~Has(player_data, "bio_url") \/ ~Truthy(player_data["bio_url"])
    THEN california_default(player_data)
    ELSE IF ~html_content.fetched
    THEN california_default(player_data)
    ELSE with_in_state(with_bio_position(with_hometown(player_data, html_content),
                                         html_content))

(***************************************************************************)
(* Inputs of get_player_hometown: a record fresh from get_player_data,     *)
(* with or without a bio_url, and what the fetch of the bio page gave.     *)
(***************************************************************************)
MaxHometownLabels == 2

HometownTexts ==
    { <<"G",","," ","C","A">>,
      <<"G",","," ","C","a","l","i","f","o","r","n","i","a">>,
      <<"G",","," ","C","a","l","i","f",".">>,
      <<"G",","," ","C","a","l","i","f">>,
      <<"G",","," ","C","a","l","f",".">>,
      <<"G",","," ","C","a","l","f">>,
      <<"A",","," ","T","e","x","a","s">>,
      <<"G">>,
      <<"G",",">>,
      <<"G",","," ","c","a">>,
      <<" ","G"," ",","," "," ","C","A"," ">>,
      <<"G",","," ","C","A",","," ","U","S","A">>,
      <<","," ","C","A">> }

RECURSIVE SeqsUpTo(_, _)
SeqsUpTo(S, n) ==
    IF n = 0 THEN { <<>> }
    ELSE LET shorter == SeqsUpTo(S, n - 1)
         IN  shorter \cup { Append(s, x) : s \in shorter, x \in S }

Site == <<"h","t","t","p","s",":","/","/","u","c","s","b","g","a","u","c","h","o","s",".","c","o","m">>

BioPath1 == <<"/","r","o","s","t","e","r","/","1">>

HometownPages ==
    { NoPage,
      [fetched |-> TRUE, text |-> FALSE, position_label |-> NoneStr,
       hometowns |-> <<>>, position_elem |-> NoneStr] } \cup
    { [fetched |-> TRUE, text |-> TRUE, position_label |-> NoneStr,
       hometowns |-> h, position_elem |-> e] :
        h \in SeqsUpTo(HometownTexts, MaxHometownLabels),
        e \in { NoneStr, Str(<<"R","H","P">>), Str(<<" ","C","/","O","F">>) } }

HometownRecords ==
    LET fresh == { new_player_data(StartYear),
                   Put(new_player_data(StartYear), "position", TextVal(<<"S","S">>)) }
    IN  fresh \cup { Put(r, "bio_url", TextVal(Site \o BioPath1)) : r \in fresh }

InitHometown ==
    /\ pc = "call"
    /\ arg \in { [player_data |-> r, html_content |-> h] :
                    r \in HometownRecords, h \in HometownPages }
    /\ ret = Idle
    /\ year = 0 /\ nrows = 0 /\ players_data = <<>> /\ idx = 0
    /\ all_players = <<>> /\ df = Idle /\ result = Idle
    /\ response = Idle /\ saved = {}

CallGetPlayerHometown ==
    /\ pc = "call"
    /\ ret' = get_player_hometown(arg.player_data, arg.html_content)
    /\ pc' = "return"
    /\ UNCHANGED <<arg, year, nrows, players_data, idx, all_players, df, result,
                   response, saved>>

NextHometown == CallGetPlayerHometown

SpecHometown == InitHometown /\ [][NextHometown]_vars

(***************************************************************************)
(* Claim C4                                                                *)
(***************************************************************************)
\* The state text obtained for a record: none without a bio URL, without a
\* fetched page, or without a 'Hometown' text that holds a comma; else the
\* text after the first comma of the first such text.
StateText(a) ==
    IF \/ "bio_url" \notin DOMAIN a.player_data
       \/ ~a.html_content.fetched
       \/ ~a.html_content.text
       \/ \A i \in 1..Len(a.html_content.hometowns) :
             ~contains(<<",">>, a.html_content.hometowns[i])
    THEN NoneStr
    ELSE LET h == a.html_content.hometowns
             i == CHOOSE k \in 1..Len(h) :
                     /\ contains(<<",">>, h[k])
                     /\ \A j \in 1..(k - 1) : ~contains(<<",">>, h[j])
         IN  Str(split_rest(h[i], ","))

IsSet(r, key) == key \in DOMAIN r

\* C4 as stated: after get_player_hometown, is_in_state is defined and state
\* is set; with no state text obtained (no bio URL, page not fetched, no
\* hometown label, hometown text without a comma) state is "California" and
\* is_in_state is true; otherwise is_in_state is true iff the trimmed state
\* text is one of CA, California, Calif., Calif, Calf., Calf.
C4_AsStated ==
    pc = "return" =>
        /\ IsSet(ret, "is_in_state") /\ IsSet(ret, "state")
        /\ IF StateText(arg).isNone
           THEN ret["state"] = TextVal(California) /\ ret["is_in_state"] = BoolVal(TRUE)
           ELSE ret["is_in_state"] = BoolVal(strip(StateText(arg).s) \in california_states)

\* C4 amended: as C4, with a hometown text that holds nothing but blanks
\* after its comma counted among the cases where no state was obtained.
C4_InStateDefined ==
    pc = "return" =>
        /\ IsSet(ret, "is_in_state") /\ IsSet(ret, "state")
        /\ IF StateText(arg).isNone \/ strip(StateText(arg).s) = <<>>
           THEN ret["state"] = TextVal(California) /\ ret["is_in_state"] = BoolVal(TRUE)
           ELSE ret["is_in_state"] = BoolVal(strip(StateText(arg).s) \in california_states)

\* A record enriched from a fetched page whose hometown names another state
\* is out of state.
C4_Witness ==
    /\ pc = "return"
    /\ ~StateText(arg).isNone
    /\ strip(StateText(arg).s) = <<"T","e","x","a","s">>
    /\ ret["is_in_state"] = BoolVal(FALSE)

(***************************************************************************)
(* Aggregator: the DataFrame of process_all_years and                      *)
(* analyze_war_by_position.  A DataFrame is its set of column names and    *)
(* its rows (dicts); a cell a row has no entry for is NaN.  The 'std'      *)
(* statistic is computed by the code but read by nothing, and is left out. *)
(***************************************************************************)
isna(v) == v.t = "nan"

\* data[col] of one row
Cell(row, col) == IF col \in DOMAIN row THEN row[col] ELSE NaN

QLess(x, y) == x.n * y.d < y.n * x.d

\* lines 403-407: pd.DataFrame(all_players), then the is_in_state column
\* created (True) when no record brought it
make_frame(players) ==
    LET columns == UNION { DOMAIN players[i] : i \in 1..Len(players) }
    IN  IF "is_in_state" \in columns
        THEN [columns |-> columns, rows |-> players]
        ELSE [columns |-> columns \cup {"is_in_state"},
              rows |-> [i \in 1..Len(players) |->
                            Put(players[i], "is_in_state", BoolVal(TRUE))]]

\* lines 423-425
ensure_in_state(data) ==
    IF "is_in_state" \in data.columns THEN data
    ELSE [columns |-> data.columns \cup {"is_in_state"},
          rows |-> [i \in 1..Len(data.rows) |->
                        Put(data.rows[i], "is_in_state", BoolVal(TRUE))]]

\* line 428: the rows that have a WAR and a position
with_war_and_position(rows) ==
    SelectSeq(rows, LAMBDA r : ~isna(Cell(r, "WAR")) /\ ~isna(Cell(r, "position")))

\* line 431: the rows of one (position, is_in_state) group
group_rows(rows, position, flag) ==
    SelectSeq(rows, LAMBDA r : /\ Cell(r, "position").s = position
                               /\ Cell(r, "is_in_state") = BoolVal(flag))

RECURSIVE SumWar(_)
SumWar(rows) ==
    IF rows = <<>> THEN Q(0, 1) ELSE QAdd(Cell(Head(rows), "WAR"), SumWar(Tail(rows)))

\* lines 432-435: a cell of the pivot table; NaN where the position has no
\* such group
pivot_mean(rows, position, flag) ==
    LET g == group_rows(rows, position, flag)
    IN  IF g = <<>> THEN NaN ELSE FloatVal(QDiv(SumWar(g), Q(Len(g), 1)))

pivot_count(rows, position, flag) ==
    LET g == group_rows(rows, position, flag)
    IN  IF g = <<>> THEN NaN ELSE FloatVal(Q(Len(g), 1))

\* the is_in_state values that head a column of the pivot table
pivot_flags(rows) ==
    { f \in BOOLEAN : \E i \in 1..Len(rows) : Cell(rows[i], "is_in_state") = BoolVal(f) }

\* the index of the pivot table
pivot_positions(rows) ==
    { Cell(rows[i], "position").s : i \in { j \in 1..Len(rows) :
          Cell(rows[j], "is_in_state").t = "bool" } }

\* line 447
war_difference(in_state, out_of_state) ==
    IF isna(in_state) \/ isna(out_of_state) THEN NaN
    ELSE FloatVal(QSub(in_state, out_of_state))

\* the percent difference with a zero out-of-state mean taken as 0 percent
percent_zero_when_no_baseline(difference, out_of_state) ==
    IF isna(difference) \/ isna(out_of_state) THEN NaN
    ELSE IF out_of_state.n = 0 THEN FloatVal(Q(0, 1))
    ELSE FloatVal(QDiv(QMul(Q(100, 1), difference), out_of_state))

\* line 448: 100 * difference / out_of_state.replace(0, np.nan)
percent_difference(difference, out_of_state) ==
    IF isna(difference) \/ isna(out_of_state) \/ out_of_state.n = 0 THEN NaN
    ELSE FloatVal(QDiv(QMul(Q(100, 1), difference), out_of_state))

\* lines 438-448: the row of result_df for one position
summary_row(rows, position) ==
    LET in_war == pivot_mean(rows, position, TRUE)
        out_war == IF FALSE \in pivot_flags(rows)
                   THEN pivot_mean(rows, position, FALSE) ELSE IntVal(0)
        difference == war_difference(in_war, out_war)
    IN  [Position |-> position,
         InStateWAR |-> in_war,
         InStateCount |-> pivot_count(rows, position, TRUE),
         OutOfStateWAR |-> out_war,
         OutOfStateCount |-> IF FALSE \in pivot_flags(rows)
                             THEN pivot_count(rows, position, FALSE) ELSE IntVal(0),
         WARDifference |-> difference,
         PctDifference |-> percent_difference(difference, out_war)]

\* line 451: sort_values(by='WAR Difference', ascending=False): the orders
\* of `rows` in which no row precedes one of greater difference and NaN
\* differences come last (ties in any order)
sorted_by_difference(rows) ==
    LET n == Cardinality(rows)
        after(a, b) == \/ isna(a.WARDifference) /\ ~isna(b.WARDifference)
                       \/ /\ ~isna(a.WARDifference) /\ ~isna(b.WARDifference)
                          /\ QLess(a.WARDifference, b.WARDifference)
    IN  { s \in [1..n -> rows] :
            /\ \A i, j \in 1..n : i # j => s[i] # s[j]
            /\ \A i, j \in 1..n : i < j => ~after(s[i], s[j]) }

DataFrame(rows) == [t |-> "DataFrame", rows |-> rows]
RaisedFrame(kind) == [t |-> kind, rows |-> <<>>]

\* analyze_war_by_position(data): the possible values of result_df, or the
\* exception raised (data['WAR'], data['position'] and
\* pivot_table[('mean', True)] raise KeyError on a missing column)
analyze_war_by_position(data) ==
    LET d == ensure_in_state(data)
    IN  IF "WAR" \notin d.columns \/ "position" \notin d.columns
        THEN { RaisedFrame("KeyError") }
        ELSE LET rows == with_war_and_position(d.rows)
             IN  IF TRUE \notin pivot_flags(rows)
                 THEN { RaisedFrame("KeyError") }
                 ELSE { DataFrame(s) : s \in sorted_by_difference(
                          { summary_row(rows, p) : p \in pivot_positions(rows) }) }

(***************************************************************************)
(* Inputs of the Aggregator: the frame of at most MaxPlayers records, each *)
(* with a position (or none), an is_in_state flag and a WAR (or none).     *)
(***************************************************************************)
MaxPlayers == 3

AnalysisRecords ==
    { [k \in {"position", "is_in_state", "WAR"} |->
          CASE k = "position" -> p [] k = "is_in_state" -> BoolVal(f) [] OTHER -> w] :
        p \in { TextVal(<<"S","S">>), TextVal(<<"P">>), NaN },
        f \in BOOLEAN,
        w \in { FloatVal(Q(0, 1)), FloatVal(Q(1, 2)), NaN } }

InitAnalyze ==
    /\ pc = "call"
    /\ arg \in { make_frame(s) : s \in SeqsUpTo(AnalysisRecords, MaxPlayers) }
    /\ ret = Idle
    /\ year = 0 /\ nrows = 0 /\ players_data = <<>> /\ idx = 0
    /\ all_players = <<>> /\ df = Idle /\ result = Idle
    /\ response = Idle /\ saved = {}

CallAnalyzeWarByPosition ==
    /\ pc = "call"
    /\ ret' \in analyze_war_by_position(arg)
    /\ pc' = "return"
    /\ UNCHANGED <<arg, year, nrows, players_data, idx, all_players, df, result,
                   response, saved>>

NextAnalyze == CallAnalyzeWarByPosition

SpecAnalyze == InitAnalyze /\ [][NextAnalyze]_vars

(***************************************************************************)
(* Claims C9 and C10                                                       *)
(***************************************************************************)
\* The records that have a WAR and a position.
Counted(data) ==
    SelectSeq(data.rows, LAMBDA r : ~isna(Cell(r, "WAR")) /\ ~isna(Cell(r, "position")))

PositionsOf(rows) == { rows[i]["position"].s : i \in 1..Len(rows) }

SideCount(rows, position, flag) ==
    Cardinality({ i \in 1..Len(rows) : /\ rows[i]["position"].s = position
                                       /\ rows[i]["is_in_state"] = BoolVal(flag) })

IsCount(v) == IsNumber(v) /\ v.d = 1 /\ v.n >= 0

\* C9: analyze_war_by_position returns exactly one row per distinct position
\* among the records that have a WAR and a position, for every mix of
\* in-state and out-of-state records; a position with no records on one side
\* gets count 0 and an undefined mean for that side; every count is a
\* non-negative integer.  (Stated for a non-empty collection; the empty one
\* is C10.)
C9_OneRowPerPosition ==
    (pc = "return" /\ Counted(arg) # <<>>) =>
        /\ ret.t = "DataFrame"
        /\ { ret.rows[i].Position : i \in 1..Len(ret.rows) } = PositionsOf(Counted(arg))
        /\ Len(ret.rows) = Cardinality(PositionsOf(Counted(arg)))
        /\ \A i \in 1..Len(ret.rows) :
              LET row == ret.rows[i]
              IN  /\ IsCount(row.InStateCount) /\ IsCount(row.OutOfStateCount)
                  /\ SideCount(Counted(arg), row.Position, TRUE) = 0
                       => row.InStateCount.n = 0 /\ isna(row.InStateWAR)
                  /\ SideCount(Counted(arg), row.Position, FALSE) = 0
                       => row.OutOfStateCount.n = 0 /\ isna(row.OutOfStateWAR)

\* C10: aggregating an empty collection of records (none scraped, or every
\* record discarded for lacking WAR or position) returns an empty comparison
\* table and raises no error.
C10_EmptyCollection ==
    (pc = "return" /\ Counted(arg) = <<>>) =>
        ret.t = "DataFrame" /\ ret.rows = <<>>

\* The part of C9 the code does satisfy: when it returns a table, the table
\* has exactly one row per distinct position.
RowsAreThePositions ==
    (pc = "return" /\ ret.t = "DataFrame") =>
        /\ { ret.rows[i].Position : i \in 1..Len(ret.rows) } = PositionsOf(Counted(arg))
        /\ Len(ret.rows) = Cardinality(PositionsOf(Counted(arg)))

(***************************************************************************)
(* Claim C11                                                               *)
(***************************************************************************)
RECURSIVE SideSum(_, _, _)
SideSum(rows, position, flag) ==
    IF rows = <<>> THEN Q(0, 1)
    ELSE LET r == Head(rows)
             rest == SideSum(Tail(rows), position, flag)
         IN  IF r["position"].s = position /\ r["is_in_state"] = BoolVal(flag)
             THEN QAdd(r["WAR"], rest) ELSE rest

\* mean WAR of the records of one side of a position (the side is not empty)
SideMean(rows, position, flag) ==
    QDiv(SideSum(rows, position, flag), Q(SideCount(rows, position, flag), 1))

\* C11: in every row of the comparison table the percent difference is
\* undefined (NaN, not zero, and no error) whenever the position has no
\* out-of-state record or their mean WAR is 0; otherwise it is
\* 100 * (in-state mean - out-of-state mean) / out-of-state mean, which is
\* itself undefined when the in-state mean is (no in-state record).
C11_PercentDifference ==
    (pc = "return" /\ ret.t = "DataFrame") =>
        \A i \in 1..Len(ret.rows) :
           LET row == ret.rows[i]
               rows == Counted(arg)
               n_in == SideCount(rows, row.Position, TRUE)
               n_out == SideCount(rows, row.Position, FALSE)
           IN  IF n_out = 0 \/ SideMean(rows, row.Position, FALSE).n = 0
               THEN isna(row.PctDifference)
               ELSE IF n_in = 0
               THEN isna(row.PctDifference)
               ELSE row.PctDifference =
                       FloatVal(QDiv(QMul(Q(100, 1),
                                          QSub(SideMean(rows, row.Position, TRUE),
                                               SideMean(rows, row.Position, FALSE))),
                                     SideMean(rows, row.Position, FALSE)))

\* A table with a row whose percent difference is -100 (in-state mean 0,
\* out-of-state mean 1/2), a row left undefined for want of out-of-state
\* records, and a row left undefined because the out-of-state mean is 0.
C11_Witness ==
    /\ pc = "return"
    /\ ret.t = "DataFrame"
    /\ \E i \in 1..Len(ret.rows) : ret.rows[i].PctDifference = FloatVal(Q(-100, 1))
    /\ \E i \in 1..Len(ret.rows) :
          /\ SideCount(Counted(arg), ret.rows[i].Position, FALSE) = 0
          /\ isna(ret.rows[i].PctDifference)

(***************************************************************************)
(* The run: main() calls process_all_years, which calls get_player_data    *)
(* for each year and get_player_hometown and calculate_war for each        *)
(* player, then analyze_war_by_position on the frame.                      *)
(*                                                                         *)
(* A row of the roster page as get_player_data reads it: the text of the   *)
(* jersey cell, the text of the name link (None: no name cell or no link),  *)
(* its data-player-id, the href of the first a[href*="/roster/"] of the    *)
(* row (None: no such link), and the stat cells by data-label.             *)
(***************************************************************************)
NoneVal == [t |-> "None", n |-> 0, d |-> 1, s |-> <<>>]

IsDict(x) == "year" \in DOMAIN x

startswith(s, prefix) ==
    Len(s) >= Len(prefix) /\ SubSeq(s, 1, Len(prefix)) = prefix

\* lines 88-90
with_jersey(player_data, row) ==
    IF row.jersey.isNone THEN player_data
    ELSE Put(player_data, "jersey", TextVal(strip(row.jersey.s)))

\* lines 101-105
with_bio_url(player_data, row) ==
    IF row.href.isNone THEN player_data
    ELSE Put(player_data, "bio_url",
             TextVal(IF row.href.s # <<>> /\ startswith(row.href.s, <<"/">>)
                     THEN Site \o row.href.s ELSE row.href.s))

\* lines 112-118: the position read off the bio page
with_label_position(player_data, soup1) ==
    IF soup1.position_label.isNone THEN player_data
    ELSE Put(player_data, "position",
             TextVal(normalize_position(Str(strip(soup1.position_label.s)))))

\* lines 93-107, up to the request for the bio page: the record, or the
\* KeyError of player_data['bio_url'] when the row has a name link and no
\* roster link
identified(player_data, row) ==
    IF row.name.isNone THEN player_data
    ELSE LET linked == with_bio_url(
                 Put(Put(player_data, "name", TextVal(strip(row.name.s))), "id", row.id), row)
         IN  IF Has(linked, "bio_url") THEN linked ELSE Raised("KeyError")

\* line 107 is reached
requests_bio_page(row) == ~row.name.isNone /\ ~row.href.isNone

\* lines 79-196, the body of the loop over player_rows: the record appended,
\* or the exception the except clause swallows.  html_content is what
\* get_page gave at line 107; BeautifulSoup(None) raises TypeError or gives a
\* soup with nothing in it, by the version of the library (none_is_error).
row_record(y, row, html_content, none_is_error) ==
    LET player_data == identified(with_jersey(new_player_data(y), row), row)
    IN  IF ~IsDict(player_data) THEN player_data
        ELSE IF ~requests_bio_page(row) THEN extract_metrics(player_data, row.cells)
        ELSE IF ~html_content.fetched /\ none_is_error THEN Raised("TypeError")
        ELSE extract_metrics(with_label_position(player_data, html_content), row.cells)

(***************************************************************************)
(* The site: the bio pages it serves and the roster rows it may show.  A   *)
(* run covers the years StartYear..EndYear and reads at most MaxRows rows. *)
(***************************************************************************)
EndYear == 2016

MaxRows == 2

BioPath2 == <<"/","r","o","s","t","e","r","/","2">>

TexasShortstop ==
    [fetched |-> TRUE, text |-> TRUE, position_label |-> Str(<<"S","S">>),
     hometowns |-> << <<"A",","," ","T","e","x","a","s">> >>, position_elem |-> NoneStr]

CaliforniaPitcher ==
    [fetched |-> TRUE, text |-> TRUE, position_label |-> NoneStr,
     hometowns |-> << <<"G",","," ","C","A">> >>, position_elem |-> Str(<<"R","H","P">>)]

\* the page the site serves at url
Web(url) == IF url = Site \o BioPath1 THEN TexasShortstop ELSE CaliforniaPitcher

RosterCells ==
    { [l \in {"OB%", "SLG%", "AB"} |->
          CASE l = "OB%" -> <<".","4","0","0">> [] l = "SLG%" -> <<".","5","0","0">>
            [] OTHER -> ab] : ab \in { <<"1","0","0">>, Dash } } \cup
    { [l \in {"ERA", "IP", "SV"} |->
          CASE l = "ERA" -> era [] l = "IP" -> <<"5","0">> [] OTHER -> <<"2">>] :
        era \in { <<"3",".","0","0">>, Dash } }

RosterRows ==
    { [jersey |-> NoneStr, name |-> NoneStr, id |-> NoneVal, href |-> NoneStr, cells |-> c] :
        c \in RosterCells } \cup
    { [jersey |-> Str(<<"7">>), name |-> Str(<<"A"," ","B">>), id |-> TextVal(<<"1">>),
       href |-> h, cells |-> c] :
        h \in { NoneStr, Str(BioPath1), Str(BioPath2) }, c \in RosterCells }

NoResult == [t |-> "None", rows |-> <<>>]

PlayersCsv == "final_ucsb_player_metrics.csv"
AnalysisCsv == "final_ucsb_war_analysis.csv"

Init ==
    /\ pc = "year"
    /\ year = StartYear
    /\ nrows = 0
    /\ players_data = <<>>
    /\ idx = 1
    /\ all_players = <<>>
    /\ df = Idle
    /\ result = NoResult
    /\ arg = Idle
    /\ ret = Idle
    /\ response = NoPage
    /\ saved = {}

\* lines 392-393 and 66-77: the next year's roster page is requested; without
\* it get_player_data returns []
GetRosterPage ==
    /\ pc = "year"
    /\ year <= EndYear
    /\ \E fetched \in BOOLEAN : pc' = IF fetched THEN "rows" ELSE "players"
    /\ players_data' = <<>>
    /\ idx' = 1
    /\ arg' = Idle
    /\ ret' = Idle
    /\ UNCHANGED <<year, nrows, all_players, df, result, response, saved>>

\* lines 78-196: one turn of the loop over player_rows
ProcessRow ==
    /\ pc = "rows"
    /\ nrows < MaxRows
    /\ \E row \in RosterRows, fetched \in BOOLEAN, none_is_error \in BOOLEAN :
          LET html_content == IF fetched /\ ~row.href.isNone
                              THEN Web(with_bio_url(EmptyDict, row)["bio_url"].s)
                              ELSE NoPage
              player_data == row_record(year, row, html_content, none_is_error)
          IN  /\ arg' = row
              /\ ret' = player_data
              /\ response' = IF requests_bio_page(row) THEN html_content ELSE response
              /\ players_data' = IF IsDict(player_data)
                                 THEN Append(players_data, player_data)
                                 ELSE players_data
    /\ nrows' = nrows + 1
    /\ UNCHANGED <<pc, year, idx, all_players, df, result, saved>>

\* line 198
ReturnPlayers ==
    /\ pc = "rows"
    /\ pc' = "players"
    /\ UNCHANGED <<arg, ret, year, nrows, players_data, idx, all_players, df, result,
                   response, saved>>

\* lines 395-396: player = self.get_player_hometown(player)
GetPlayerHometown ==
    /\ pc = "players"
    /\ idx <= Len(players_data)
    /\ LET player == players_data[idx]
       IN  \E fetched \in BOOLEAN :
             LET html_content == IF fetched /\ Has(player, "bio_url")
                                 THEN Web(player["bio_url"].s) ELSE NoPage
             IN  /\ players_data' = [players_data EXCEPT
                                        ![idx] = get_player_hometown(player, html_content)]
                 /\ response' = IF Has(player, "bio_url") /\ Truthy(player["bio_url"])
                                THEN html_content ELSE response
    /\ pc' = "war"
    /\ UNCHANGED <<arg, ret, year, nrows, idx, all_players, df, result, saved>>

\* CalculateWar with calculate_war run on the record as if its position were
\* still the default 'Unknown'
CalculateWarOnDefaultPosition ==
    /\ pc = "war"
    /\ LET war_value == calculate_war(Put(players_data[idx], "position", TextVal(Unknown)))
       IN  IF HasRaised(war_value)
           THEN /\ pc' = "raised"
                /\ result' = RaisedFrame(war_value.t)
                /\ UNCHANGED players_data
           ELSE /\ pc' = "append"
                /\ players_data' = [players_data EXCEPT
                                       ![idx] = Put(players_data[idx], "WAR", war_value)]
                /\ UNCHANGED result
    /\ UNCHANGED <<arg, ret, year, nrows, idx, all_players, df, response, saved>>

\* line 399: player['WAR'] = self.calculate_war(player); an exception of
\* calculate_war leaves process_all_years and main
CalculateWar ==
    /\ pc = "war"
    /\ LET war_value == calculate_war(players_data[idx])
       IN  IF HasRaised(war_value)
           THEN /\ pc' = "raised"
                /\ result' = RaisedFrame(war_value.t)
                /\ UNCHANGED players_data
           ELSE /\ pc' = "append"
                /\ players_data' = [players_data EXCEPT
                                       ![idx] = Put(players_data[idx], "WAR", war_value)]
                /\ UNCHANGED result
    /\ UNCHANGED <<arg, ret, year, nrows, idx, all_players, df, response, saved>>

\* line 401
AppendPlayer ==
    /\ pc = "append"
    /\ all_players' = Append(all_players, players_data[idx])
    /\ idx' = idx + 1
    /\ pc' = "players"
    /\ UNCHANGED <<arg, ret, year, nrows, players_data, df, result, response, saved>>

\* line 392: the loop over the year's players is over
NextYear ==
    /\ pc = "players"
    /\ idx > Len(players_data)
    /\ year' = year + 1
    /\ pc' = "year"
    /\ UNCHANGED <<arg, ret, nrows, players_data, idx, all_players, df, result,
                   response, saved>>

\* lines 403-412
BuildFrame ==
    /\ pc = "year"
    /\ year > EndYear
    /\ df' = make_frame(all_players)
    /\ saved' = saved \cup {PlayersCsv}
    /\ pc' = "analyze"
    /\ UNCHANGED <<arg, ret, year, nrows, players_data, idx, all_players, result, response>>

\* line 468 and lines 414-457
AnalyzeWar ==
    /\ pc = "analyze"
    /\ result' \in analyze_war_by_position(df)
    /\ pc' = IF result'.t = "DataFrame" THEN "done" ELSE "raised"
    /\ saved' = IF result'.t = "DataFrame" THEN saved \cup {AnalysisCsv} ELSE saved
    /\ UNCHANGED <<arg, ret, year, nrows, players_data, idx, all_players, df, response>>

Next ==
    \/ GetRosterPage
    \/ ProcessRow
    \/ ReturnPlayers
    \/ GetPlayerHometown
    \/ CalculateWar
    \/ AppendPlayer
    \/ NextYear
    \/ BuildFrame
    \/ AnalyzeWar

Spec == Init /\ [][Next]_vars

(***************************************************************************)
(* Claims C5 and C6                                                        *)
(***************************************************************************)
\* C5: a field parse failure never aborts a record or the run: a record
\* whose rate or count fields kept their raw text is still enriched, given a
\* WAR by calculate_war and appended to the final collection by
\* process_all_years; the run is never left with calculate_war's exception.
C5_ParseFailureNeverAborts ==
    /\ ~(pc = "raised" /\ result.t = "TypeError")
    /\ pc = "players" =>
          \A i \in 1..Len(players_data) :
             i < idx => /\ Has(players_data[i], "WAR")
                        /\ \E j \in 1..Len(all_players) : all_players[j] = players_data[i]

\* C6: a player row with no bio link, or whose bio page could not be
\* fetched, is "no data": its record is kept, and the record's state is
\* California with is_in_state true once get_player_hometown has run.
C6_NoBioDataKeepsRecord ==
    /\ (pc = "rows" /\ "href" \in DOMAIN arg
          /\ (arg.href.isNone \/ ~response.fetched)) =>
             /\ IsDict(ret)
             /\ players_data # <<>>
             /\ players_data[Len(players_data)] = ret
    /\ (pc = "war" /\ (~Has(players_data[idx], "bio_url") \/ ~response.fetched)) =>
             /\ players_data[idx]["state"] = TextVal(California)
             /\ players_data[idx]["is_in_state"] = BoolVal(TRUE)

\* The part of C6 the code does satisfy: get_player_hometown on a record
\* with no bio_url, or whose bio page could not be fetched.
DefaultsToCalifornia ==
    (pc = "war" /\ (~Has(players_data[idx], "bio_url") \/ ~response.fetched)) =>
        /\ players_data[idx]["state"] = TextVal(California)
        /\ players_data[idx]["is_in_state"] = BoolVal(TRUE)

(***************************************************************************)
(* Claim C12                                                               *)
(***************************************************************************)
\* get_player_hometown has run on the record
Enriched(player_data) == Has(player_data, "state") /\ Has(player_data, "hometown")

\* the record is complete: a WAR that calculate_war gives on the record's
\* own position and stats, a canonical position, a boolean is_in_state
Finalized(player_data) ==
    /\ Enriched(player_data)
    /\ Has(player_data, "WAR")
    /\ player_data["WAR"] = calculate_war(player_data)
    /\ player_data["position"].s \in CanonicalCodes
    /\ player_data["is_in_state"].t = "bool"

\* the record of `players` at index i has been through calculate_war
PastWar(i) == i < idx \/ (i = idx /\ pc = "append")

StagesInOrder ==
    /\ \A j \in 1..Len(all_players) : Finalized(all_players[j])
    /\ \A i \in 1..Len(players_data) :
          /\ Has(players_data[i], "WAR") <=> PastWar(i)
          /\ Has(players_data[i], "WAR") => Finalized(players_data[i])
          /\ Enriched(players_data[i]) <=> (PastWar(i) \/ (i = idx /\ pc \in {"war", "raised"}))
          /\ (pc = "players" /\ i < idx) =>
                \E j \in 1..Len(all_players) : all_players[j] = players_data[i]

\* a step leaves every appended record as it is: the collection only grows
\* at its end, by the record just given its WAR, and the year's records
\* that were appended (the same dicts) are not written to again
AppendedStaysFixed ==
    /\ Len(all_players') >= Len(all_players)
    /\ \A j \in 1..Len(all_players) : all_players'[j] = all_players[j]
    /\ Len(all_players') > Len(all_players) =>
          /\ pc = "append"
          /\ all_players' = Append(all_players, players_data[idx])
    /\ pc # "year" =>
          \A i \in 1..Len(players_data) :
             PastWar(i) => (i <= Len(players_data') /\ players_data'[i] = players_data[i])

\* C12: in process_all_years a record is extracted, enriched, given its WAR
\* and appended, in that order: a record carries a WAR only once
\* calculate_war has run on its final position and stats, every record of
\* the collection has a WAR, a canonical position and a defined is_in_state,
\* and no record changes after it has been appended.
C12_Lifecycle == []StagesInOrder /\ [][AppendedStaysFixed]_vars

\* The run is over with two records in the collection, one of them an
\* out-of-state shortstop whose position came from the bio page.
C12_Witness ==
    /\ pc = "done"
    /\ Len(all_players) = 2
    /\ \E j \in 1..2 : /\ all_players[j]["position"].s = <<"S","S">>
                       /\ all_players[j]["is_in_state"] = BoolVal(FALSE)
                       /\ all_players[j]["WAR"] # FloatVal(Q(0, 1))

====
